---- MODULE Spec2Model ----
(***************************************************************************)
(* A model of sprites/slice_sprites.py: the background classifier, the     *)
(* border-seeded flood fill, the connected-component extraction, the       *)
(* proximity merge of bounding boxes, and the per-sprite crop with its     *)
(* local flood fill.                                                       *)
(*                                                                         *)
(* An image is a record [w, h, px] whose px is the row-major sequence of   *)
(* its RGBA pixels: pixel (x, y) is px[y * w + x + 1].  A mask is the      *)
(* row-major sequence of booleans the code calls visited: visited[idx] of  *)
(* the code is visited[idx + 1] here (TLA+ sequences start at 1).          *)
(***************************************************************************)
EXTENDS Integers, Sequences, FiniteSets, TLC

VARIABLES pc, img, visited, queue, rs, ms, cut, out

vars == <<pc, img, visited, queue, rs, ms, cut, out>>

(***************************************************************************)
(* Bounds of the model.                                                    *)
(***************************************************************************)
\* The largest number of pixels (w * h) of an enumerated image or mask.
MaxPixels == 9

\* The colours of the enumerated images, two to an image: one the classifier
\* takes for background and one it does not.  White and Grey are background
\* (Grey by the narrowest margin of spread, 11); Blue fails both tests, Cream
\* only the spread test (12), Dark only the average test (225 exactly).
White == <<255, 255, 255, 255>>
Blue == <<0, 0, 255, 255>>
Grey == <<237, 237, 226, 128>>
Cream == <<255, 255, 243, 7>>
Dark == <<225, 225, 225, 255>>
Palettes == {{White, Blue}, {Grey, Cream}, {White, Dark}}

\* The value of a variable the running function does not use.
None == <<>>

(***************************************************************************)
(* Helpers.                                                                *)
(***************************************************************************)
Max2(a, b) == IF a >= b THEN a ELSE b
Min2(a, b) == IF a <= b THEN a ELSE b
Max3(a, b, c) == Max2(a, Max2(b, c))
Min3(a, b, c) == Min2(a, Min2(b, c))

\* [False] * (w * h)
AllFalse(n) == [k \in 1..n |-> FALSE]

\* img.getpixel((x, y)), pixels[x, y]
GetPixel(im, x, y) == im.px[y * im.w + x + 1]

InBounds(w, h, x, y) == ~(x < 0 \/ x >= w \/ y < 0 \/ y >= h)

\* The four appends that follow a visit, in the code's order.
Neighbours(x, y) == << <<x + 1, y>>, <<x - 1, y>>, <<x, y + 1>>, <<x, y - 1>> >>

(***************************************************************************)
(* is_background_pixel: avg > 225 and spread < threshold.  avg is the      *)
(* float (r + g + b) / 3, and (r + g + b) / 3 > 225 exactly when           *)
(* r + g + b > 675.                                                        *)
(***************************************************************************)
Threshold == 12

is_background_pixel(r, g, b) ==
    /\ r + g + b > 3 * 225
    /\ Max3(r, g, b) - Min3(r, g, b) < Threshold

IsBg(im, x, y) ==
    LET p == GetPixel(im, x, y) IN is_background_pixel(p[1], p[2], p[3])

(***************************************************************************)
(* The seeds both flood fills start from: for x in range(w): (x, 0),       *)
(* (x, h - 1); then for y in range(h): (0, y), (w - 1, y).                 *)
(***************************************************************************)
EdgeSeeds(w, h) ==
    [k \in 1..(2 * w) |->
        <<(k - 1) \div 2, IF k % 2 = 1 THEN 0 ELSE h - 1>>]
    \o
    [k \in 1..(2 * h) |->
        <<IF k % 2 = 1 THEN 0 ELSE w - 1, (k - 1) \div 2>>]

(***************************************************************************)
(* flood_fill_background.  FillIter is one iteration of its while loop on  *)
(* the locals st = [queue, visited].                                       *)
(***************************************************************************)
\* The iteration with the mark made before the background test.
FillIterMarksFirst(im, st) ==
    LET x == Head(st.queue)[1]
        y == Head(st.queue)[2]
        rest == Tail(st.queue)
        idx == y * im.w + x
    IN  IF ~InBounds(im.w, im.h, x, y) THEN [st EXCEPT !.queue = rest]
        ELSE IF st.visited[idx + 1] THEN [st EXCEPT !.queue = rest]
        ELSE IF ~IsBg(im, x, y)
             THEN [queue |-> rest,
                   visited |-> [st.visited EXCEPT ![idx + 1] = TRUE]]
        ELSE [queue |-> rest \o Neighbours(x, y),
              visited |-> [st.visited EXCEPT ![idx + 1] = TRUE]]

FillIter(im, st) ==
    LET x == Head(st.queue)[1]
        y == Head(st.queue)[2]
        rest == Tail(st.queue)
        idx == y * im.w + x
    IN  IF ~InBounds(im.w, im.h, x, y) THEN [st EXCEPT !.queue = rest]
        ELSE IF st.visited[idx + 1] THEN [st EXCEPT !.queue = rest]
        ELSE IF ~IsBg(im, x, y) THEN [st EXCEPT !.queue = rest]
        ELSE [queue |-> rest \o Neighbours(x, y),
              visited |-> [st.visited EXCEPT ![idx + 1] = TRUE]]

(***************************************************************************)
(* The enumerated images.                                                  *)
(***************************************************************************)
Dims == {d \in (1..MaxPixels) \X (1..MaxPixels) : d[1] * d[2] <= MaxPixels}

Images(dims, palettes) ==
    UNION {[w : {d[1]}, h : {d[2]}, px : [1..(d[1] * d[2]) -> pal]] :
              d \in dims, pal \in palettes}

(***************************************************************************)
(* SpecFill: flood_fill_background on every image, an iteration a step.    *)
(***************************************************************************)
InitFill ==
    /\ pc = "fill_call"
    /\ img \in Images(Dims, Palettes)
    /\ visited = AllFalse(img.w * img.h)
    /\ queue = <<>>
    /\ rs = None /\ ms = None /\ cut = None /\ out = None

FillCall ==
    /\ pc = "fill_call"
    /\ queue' = EdgeSeeds(img.w, img.h)
    /\ pc' = "fill_loop"
    /\ UNCHANGED <<img, visited, rs, ms, cut, out>>

FillPop ==
    /\ pc = "fill_loop"
    /\ queue # <<>>
    /\ LET st == FillIter(img, [queue |-> queue, visited |-> visited])
       IN  queue' = st.queue /\ visited' = st.visited
    /\ UNCHANGED <<pc, img, rs, ms, cut, out>>

\* The loop is over and the call returns: to step 2 of slice_spritesheet
\* when that called it (cut holds its locals), and to no caller otherwise.
FillReturn ==
    /\ pc = "fill_loop"
    /\ queue = <<>>
    /\ pc' = IF cut = None THEN "fill_done" ELSE "slice_loop"
    /\ UNCHANGED <<img, visited, queue, rs, ms, cut, out>>

NextFill == FillCall \/ FillPop \/ FillReturn

SpecFill == InitFill /\ [][NextFill]_vars

(***************************************************************************)
(* What the fill is to compute, stated without its work list: the least    *)
(* set of background-like pixels that holds every background-like border   *)
(* pixel and is closed under the four neighbours.                          *)
(***************************************************************************)
Pixels(w, h) == (0..(w - 1)) \X (0..(h - 1))

Adjacent4(p, q) ==
    \/ p[2] = q[2] /\ (p[1] = q[1] + 1 \/ q[1] = p[1] + 1)
    \/ p[1] = q[1] /\ (p[2] = q[2] + 1 \/ q[2] = p[2] + 1)

OnBorder(w, h, p) == p[1] = 0 \/ p[1] = w - 1 \/ p[2] = 0 \/ p[2] = h - 1

\* The least superset of S closed under the neighbours that lie in Allowed.
RECURSIVE Closure4(_, _)
Closure4(S, Allowed) ==
    LET T == S \cup {q \in Allowed : \E p \in S : Adjacent4(p, q)}
    IN  IF T = S THEN S ELSE Closure4(T, Allowed)

BgPixels(im) == {p \in Pixels(im.w, im.h) : IsBg(im, p[1], p[2])}

BorderConnected(im) ==
    Closure4({p \in BgPixels(im) : OnBorder(im.w, im.h, p)}, BgPixels(im))

Marked(w, h, mask) == {p \in Pixels(w, h) : mask[p[2] * w + p[1] + 1]}

\* C1: flood_fill_background, started on an all-false mask, never marks a
\* pixel that is not background-like (a border pixel failing the background
\* test included), and when it finishes the marked pixels are exactly the
\* background-like pixels connected to a background-like border pixel by a
\* 4-connected path of background-like pixels.
C1_FillMarksBorderConnected ==
    /\ pc \in {"fill_call", "fill_loop", "fill_done"} =>
          Marked(img.w, img.h, visited) \subseteq BgPixels(img)
    /\ pc = "fill_done" =>
          Marked(img.w, img.h, visited) = BorderConnected(img)

\* A finished fill that marked some pixel, left a background-like pixel
\* unmarked (it is enclosed by foreground) and met a border pixel that
\* fails the background test.
C1_Witness ==
    /\ pc = "fill_done"
    /\ Marked(img.w, img.h, visited) # {}
    /\ BgPixels(img) \ Marked(img.w, img.h, visited) # {}
    /\ \E p \in Pixels(img.w, img.h) \ BgPixels(img) : OnBorder(img.w, img.h, p)

(***************************************************************************)
(* find_sprite_regions(visited, w, h, min_size).  Its locals are the       *)
(* record rs: regions, region_visited, the scan position (x, y), and the   *)
(* running min_x, min_y, max_x, max_y, region_pixels of the component      *)
(* being collected.  Two fields record history and are read by no step:    *)
(* cur, the pixels counted in region_pixels so far, and comps, one         *)
(* [pixels, count] per collected component, kept or not by the size test.  *)
(***************************************************************************)
\* The next position of the row-major sweep.
ScanNext(st) ==
    IF st.x + 1 < st.w THEN [st EXCEPT !.x = st.x + 1]
    ELSE [st EXCEPT !.x = 0, !.y = st.y + 1]

\* Lines 61-70: one position of the sweep, which either passes over the
\* pixel or starts the breadth-first search of a new component there.
RegScanIter(vis, st) ==
    LET idx == st.y * st.w + st.x
    IN  IF vis[idx + 1] \/ st.region_visited[idx + 1]
        THEN [st |-> ScanNext(st), queue |-> <<>>, bfs |-> FALSE]
        ELSE [st |-> [st EXCEPT !.min_x = st.x, !.min_y = st.y,
                                !.max_x = st.x, !.max_y = st.y,
                                !.region_pixels = 0, !.cur = {}],
              queue |-> << <<st.x, st.y>> >>,
              bfs |-> TRUE]

\* The search without the append of (cx, cy - 1).
RegBfsIterNoUp(vis, st, q) ==
    LET cx == Head(q)[1]
        cy == Head(q)[2]
        rest == Tail(q)
        cidx == cy * st.w + cx
    IN  IF ~InBounds(st.w, st.h, cx, cy) THEN [st |-> st, queue |-> rest]
        ELSE IF vis[cidx + 1] \/ st.region_visited[cidx + 1]
        THEN [st |-> st, queue |-> rest]
        ELSE [st |-> [st EXCEPT !.region_visited[cidx + 1] = TRUE,
                                !.region_pixels = st.region_pixels + 1,
                                !.min_x = Min2(st.min_x, cx),
                                !.min_y = Min2(st.min_y, cy),
                                !.max_x = Max2(st.max_x, cx),
                                !.max_y = Max2(st.max_y, cy),
                                !.cur = st.cur \cup {<<cx, cy>>}],
              queue |-> rest \o SubSeq(Neighbours(cx, cy), 1, 3)]

\* Lines 72-90: one iteration of the search's while loop.
RegBfsIter(vis, st, q) ==
    LET cx == Head(q)[1]
        cy == Head(q)[2]
        rest == Tail(q)
        cidx == cy * st.w + cx
    IN  IF ~InBounds(st.w, st.h, cx, cy) THEN [st |-> st, queue |-> rest]
        ELSE IF vis[cidx + 1] \/ st.region_visited[cidx + 1]
        THEN [st |-> st, queue |-> rest]
        ELSE [st |-> [st EXCEPT !.region_visited[cidx + 1] = TRUE,
                                !.region_pixels = st.region_pixels + 1,
                                !.min_x = Min2(st.min_x, cx),
                                !.min_y = Min2(st.min_y, cy),
                                !.max_x = Max2(st.max_x, cx),
                                !.max_y = Max2(st.max_y, cy),
                                !.cur = st.cur \cup {<<cx, cy>>}],
              queue |-> rest \o Neighbours(cx, cy)]

\* Lines 92-96: the size test on the collected component, and the sweep
\* moves on.
RegClose(st) ==
    LET region_w == st.max_x - st.min_x + 1
        region_h == st.max_y - st.min_y + 1
        kept == IF region_w >= st.min_size /\ region_h >= st.min_size
                THEN Append(st.regions,
                            <<st.min_x, st.min_y, st.max_x + 1, st.max_y + 1,
                              st.region_pixels>>)
                ELSE st.regions
    IN  ScanNext([st EXCEPT !.regions = kept,
                            !.comps = Append(st.comps,
                                [pixels |-> st.cur, count |-> st.region_pixels]),
                            !.cur = {}])

(***************************************************************************)
(* SpecRegions: find_sprite_regions on every mask, a loop iteration a      *)
(* step.                                                                   *)
(***************************************************************************)
\* The min_size arguments: one the enumerated masks can meet, and the
\* default, which they cannot.
MinSizes == {2, 30}

InitRegions ==
    /\ pc = "reg_call"
    /\ \E d \in Dims, m \in MinSizes :
          /\ visited \in [1..(d[1] * d[2]) -> BOOLEAN]
          /\ rs = [w |-> d[1], h |-> d[2], min_size |-> m]
    /\ queue = <<>>
    /\ img = None /\ ms = None /\ cut = None /\ out = None

\* Lines 57-58.
RegCall ==
    /\ pc = "reg_call"
    /\ rs' = [w |-> rs.w, h |-> rs.h, min_size |-> rs.min_size,
              regions |-> <<>>, region_visited |-> AllFalse(rs.w * rs.h),
              x |-> 0, y |-> 0,
              min_x |-> 0, min_y |-> 0, max_x |-> 0, max_y |-> 0,
              region_pixels |-> 0, cur |-> {}, comps |-> <<>>]
    /\ pc' = "reg_scan"
    /\ UNCHANGED <<img, visited, queue, ms, cut, out>>

RegScan ==
    /\ pc = "reg_scan"
    /\ rs.y < rs.h
    /\ LET r == RegScanIter(visited, rs)
       IN  /\ rs' = r.st
           /\ queue' = r.queue
           /\ pc' = IF r.bfs THEN "reg_bfs" ELSE "reg_scan"
    /\ UNCHANGED <<img, visited, ms, cut, out>>

RegPop ==
    /\ pc = "reg_bfs"
    /\ queue # <<>>
    /\ LET r == RegBfsIter(visited, rs, queue)
       IN  rs' = r.st /\ queue' = r.queue
    /\ UNCHANGED <<pc, img, visited, ms, cut, out>>

RegEnd ==
    /\ pc = "reg_bfs"
    /\ queue = <<>>
    /\ rs' = RegClose(rs)
    /\ pc' = "reg_scan"
    /\ UNCHANGED <<img, visited, queue, ms, cut, out>>

RegReturn ==
    /\ pc = "reg_scan"
    /\ rs.y >= rs.h
    /\ pc' = "reg_done"
    /\ UNCHANGED <<img, visited, queue, rs, ms, cut, out>>

NextRegions == RegCall \/ RegScan \/ RegPop \/ RegEnd \/ RegReturn

SpecRegions == InitRegions /\ [][NextRegions]_vars

InRegions == pc \in {"reg_scan", "reg_bfs", "reg_done"}

\* The pixels outside the background mask.
Foreground(w, h, mask) == Pixels(w, h) \ Marked(w, h, mask)

\* What SpecSlice takes for granted of the list find_sprite_regions returns:
\* each region's box lies inside the mask's grid with sides of min_size or
\* more, its count is one its box can hold, the regions come in the order
\* of their top rows, and no two boxes are the same.
FoundRegionsWellFormed ==
    InRegions =>
      \A k \in 1..Len(rs.regions) :
         LET r == rs.regions[k]
         IN  /\ 0 <= r[1] /\ r[1] + rs.min_size <= r[3] /\ r[3] <= rs.w
             /\ 0 <= r[2] /\ r[2] + rs.min_size <= r[4] /\ r[4] <= rs.h
             /\ (r[3] - r[1]) + (r[4] - r[2]) - 1 <= r[5]
             /\ r[5] <= (r[3] - r[1]) * (r[4] - r[2])
             /\ \A l \in 1..(k - 1) :
                   /\ rs.regions[l][2] <= r[2]
                   /\ SubSeq(rs.regions[l], 1, 4) # SubSeq(r, 1, 4)

\* C2: during the sweep of find_sprite_regions no pixel of the background
\* mask is counted, no pixel is counted in two components, and a component's
\* region_pixels is the number of its pixels; when the sweep finishes every
\* pixel outside the mask is in exactly one collected component (before the
\* min_size test) and each component is a maximal 4-connected set of pixels
\* outside the mask.
C2_ComponentsPartitionForeground ==
    InRegions =>
      LET fg == Foreground(rs.w, rs.h, visited)
          n == Len(rs.comps)
      IN  /\ rs.cur \subseteq fg
          /\ pc = "reg_bfs" => rs.region_pixels = Cardinality(rs.cur)
          /\ \A k \in 1..n :
                /\ rs.comps[k].pixels \subseteq fg
                /\ rs.comps[k].count = Cardinality(rs.comps[k].pixels)
                /\ rs.comps[k].pixels \cap rs.cur = {}
                /\ \A l \in 1..n :
                      k # l => rs.comps[k].pixels \cap rs.comps[l].pixels = {}
          /\ pc = "reg_done" =>
                /\ fg = UNION {rs.comps[k].pixels : k \in 1..n}
                /\ \A k \in 1..n :
                      /\ rs.comps[k].pixels # {}
                      /\ \A p \in rs.comps[k].pixels :
                            rs.comps[k].pixels = Closure4({p}, fg)

\* A finished sweep over a mask that is not empty that collected two
\* components or more, one of them holding two pixels of a row and not a
\* pixel between them (it joins them through another row).
C2_Witness ==
    /\ pc = "reg_done"
    /\ Len(rs.comps) >= 2
    /\ Marked(rs.w, rs.h, visited) # {}
    /\ \E k \in 1..Len(rs.comps) :
          \E p, q \in rs.comps[k].pixels :
             /\ p[2] = q[2] /\ p[1] + 2 <= q[1]
             /\ \E m \in (p[1] + 1)..(q[1] - 1) :
                   <<m, p[2]>> \notin rs.comps[k].pixels

(***************************************************************************)
(* merge_close_regions(regions, gap).  A region is the tuple               *)
(* <<x1, y1, x2, y2, pixel_count>>.  The locals are the record ms:         *)
(* regions, gap, merged, new_regions, used, the loop indices i and j       *)
(* (from 0, as in the code) and the accumulator x1, y1, x2, y2, p1.        *)
(* Five fields record history and are read by no step: input is the list   *)
(* the call was given, passes counts the passes of the while loop, and     *)
(* src, new_src, cur_src hold, beside regions, new_regions and the         *)
(* accumulator, the set of positions of the input list absorbed into each  *)
(* region.                                                                 *)
(***************************************************************************)
\* The test of lines 120-121 between the accumulator and regions[j].
CloseTo(x1, y1, x2, y2, gap, b) ==
    /\ x1 - gap <= b[3] /\ x2 + gap >= b[1]
    /\ y1 - gap <= b[4] /\ y2 + gap >= b[2]

\* Lines 122-127 with the count taken from the area of the grown box.
AbsorbByArea(st, b, k) ==
    LET nx1 == Min2(st.x1, b[1])
        ny1 == Min2(st.y1, b[2])
        nx2 == Max2(st.x2, b[3])
        ny2 == Max2(st.y2, b[4])
    IN  [st EXCEPT !.x1 = nx1, !.y1 = ny1, !.x2 = nx2, !.y2 = ny2,
                   !.p1 = (nx2 - nx1) * (ny2 - ny1),
                   !.used = st.used \cup {k},
                   !.merged = TRUE,
                   !.cur_src = st.cur_src \cup st.src[k + 1]]

\* Lines 122-127 without the update of y2.
AbsorbNoY2(st, b, k) ==
    [st EXCEPT !.x1 = Min2(st.x1, b[1]),
               !.y1 = Min2(st.y1, b[2]),
               !.x2 = Max2(st.x2, b[3]),
               !.p1 = st.p1 + b[5],
               !.used = st.used \cup {k},
               !.merged = TRUE,
               !.cur_src = st.cur_src \cup st.src[k + 1]]

\* Lines 122-128 without the assignment merged = True.
AbsorbNoFlag(st, b, k) ==
    [st EXCEPT !.x1 = Min2(st.x1, b[1]),
               !.y1 = Min2(st.y1, b[2]),
               !.x2 = Max2(st.x2, b[3]),
               !.y2 = Max2(st.y2, b[4]),
               !.p1 = st.p1 + b[5],
               !.used = st.used \cup {k},
               !.cur_src = st.cur_src \cup st.src[k + 1]]

\* Lines 122-128: the accumulator absorbs b = regions[k].
Absorb(st, b, k) ==
    [st EXCEPT !.x1 = Min2(st.x1, b[1]),
               !.y1 = Min2(st.y1, b[2]),
               !.x2 = Max2(st.x2, b[3]),
               !.y2 = Max2(st.y2, b[4]),
               !.p1 = st.p1 + b[5],
               !.used = st.used \cup {k},
               !.merged = TRUE,
               !.cur_src = st.cur_src \cup st.src[k + 1]]

\* Lines 103-106.
MergeEnter(st) ==
    IF st.regions = <<>> THEN [pc |-> "merge_done", ms |-> st]
    ELSE [pc |-> "merge_while", ms |-> [st EXCEPT !.merged = TRUE]]

\* Lines 107-110 without the assignment merged = False.
MergeWhileNoReset(st) ==
    IF st.merged
    THEN [pc |-> "merge_for_i",
          ms |-> [st EXCEPT !.new_regions = <<>>,
                            !.used = {}, !.i = 0,
                            !.new_src = <<>>, !.passes = st.passes + 1]]
    ELSE [pc |-> "merge_done", ms |-> st]

\* Lines 107-110, and the return of line 133.
MergeWhile(st) ==
    IF st.merged
    THEN [pc |-> "merge_for_i",
          ms |-> [st EXCEPT !.merged = FALSE, !.new_regions = <<>>,
                            !.used = {}, !.i = 0,
                            !.new_src = <<>>, !.passes = st.passes + 1]]
    ELSE [pc |-> "merge_done", ms |-> st]

\* Lines 111-114, and line 131 when the for loop is over.
MergeForI(st) ==
    IF st.i >= Len(st.regions)
    THEN [pc |-> "merge_while",
          ms |-> [st EXCEPT !.regions = st.new_regions, !.src = st.new_src]]
    ELSE IF st.i \in st.used
    THEN [pc |-> "merge_for_i", ms |-> [st EXCEPT !.i = st.i + 1]]
    ELSE LET a == st.regions[st.i + 1]
         IN  [pc |-> "merge_for_j",
              ms |-> [st EXCEPT !.x1 = a[1], !.y1 = a[2], !.x2 = a[3],
                                !.y2 = a[4], !.p1 = a[5], !.j = st.i + 1,
                                !.cur_src = st.src[st.i + 1]]]

\* Lines 115-128, and lines 129-130 when the inner loop is over.
MergeForJ(st) ==
    IF st.j >= Len(st.regions)
    THEN [pc |-> "merge_for_i",
          ms |-> [st EXCEPT
                    !.new_regions = Append(st.new_regions,
                        <<st.x1, st.y1, st.x2, st.y2, st.p1>>),
                    !.new_src = Append(st.new_src, st.cur_src),
                    !.used = st.used \cup {st.i},
                    !.i = st.i + 1]]
    ELSE IF st.j \in st.used
    THEN [pc |-> "merge_for_j", ms |-> [st EXCEPT !.j = st.j + 1]]
    ELSE LET b == st.regions[st.j + 1]
         IN  IF CloseTo(st.x1, st.y1, st.x2, st.y2, st.gap, b)
             THEN [pc |-> "merge_for_j",
                   ms |-> [Absorb(st, b, st.j) EXCEPT !.j = st.j + 1]]
             ELSE [pc |-> "merge_for_j", ms |-> [st EXCEPT !.j = st.j + 1]]

MergeIter(at, st) ==
    CASE at = "merge_call" -> MergeEnter(st)
      [] at = "merge_while" -> MergeWhile(st)
      [] at = "merge_for_i" -> MergeForI(st)
      [] at = "merge_for_j" -> MergeForJ(st)

RECURSIVE MergeLoop(_, _)
MergeLoop(at, st) ==
    IF at = "merge_done" THEN st
    ELSE LET r == MergeIter(at, st) IN MergeLoop(r.pc, r.ms)

\* The locals at the call.
MergeLocals(regions, gap) ==
    [regions |-> regions, gap |-> gap, input |-> regions, merged |-> FALSE,
     new_regions |-> <<>>, used |-> {}, i |-> 0, j |-> 0,
     x1 |-> 0, y1 |-> 0, x2 |-> 0, y2 |-> 0, p1 |-> 0,
     passes |-> 0, src |-> [k \in 1..Len(regions) |-> {k}],
     new_src |-> <<>>, cur_src |-> {}]

\* The list the call returns.
merge_close_regions(regions, gap) ==
    MergeLoop("merge_call", MergeLocals(regions, gap)).regions

(***************************************************************************)
(* SpecMerge: merge_close_regions on every list of at most MaxRegions      *)
(* boxes of a pool, a loop iteration a step.                               *)
(***************************************************************************)
MaxRegions == 3

\* The gaps: none, the one slice_spritesheet passes, and one more, at
\* which the far interval below lies exactly gap away from the short one.
Gaps == {0, 3, 4}

\* The extents a box of the pool takes on each axis: a short one, a long
\* one over it, and a far one that touches the long one and lies 4 from
\* the short one.
Extents == {<<0, 1>>, <<0, 5>>, <<5, 6>>}

RECURSIVE Pow2(_)
Pow2(n) == IF n = 0 THEN 1 ELSE 2 * Pow2(n - 1)

\* The lists of n boxes of the pool.  The pixel counts do not steer the
\* merge; the k-th input gets 2^(k-1), so that a sum of counts tells which
\* inputs it adds up.
RegionLists(n) ==
    {[k \in 1..n |-> <<f[k][1][1], f[k][2][1], f[k][1][2], f[k][2][2], Pow2(k - 1)>>] :
        f \in [1..n -> Extents \X Extents]}

InitMerge ==
    /\ pc = "merge_call"
    /\ \E n \in 0..MaxRegions, g \in Gaps :
          \E l \in RegionLists(n) :
             ms = MergeLocals(l, g)
    /\ queue = <<>>
    /\ img = None /\ visited = None /\ rs = None /\ cut = None /\ out = None

\* One step of the call: MergeIter at the current position.
MergeStep ==
    /\ LET r == MergeIter(pc, ms) IN pc' = r.pc /\ ms' = r.ms
    /\ UNCHANGED <<img, visited, queue, rs, cut, out>>

MergeCall ==
    /\ pc = "merge_call"
    /\ MergeStep

MergePass ==
    /\ pc = "merge_while"
    /\ ms.merged
    /\ MergeStep

MergeOuter ==
    /\ pc = "merge_for_i"
    /\ ms.i < Len(ms.regions)
    /\ MergeStep

MergeInner ==
    /\ pc = "merge_for_j"
    /\ ms.j < Len(ms.regions)
    /\ MergeStep

MergeAppend ==
    /\ pc = "merge_for_j"
    /\ ms.j >= Len(ms.regions)
    /\ MergeStep

MergePassEnd ==
    /\ pc = "merge_for_i"
    /\ ms.i >= Len(ms.regions)
    /\ MergeStep

MergeReturn ==
    /\ pc = "merge_while"
    /\ ~ms.merged
    /\ MergeStep

NextMerge ==
    \/ MergeCall \/ MergePass \/ MergeOuter \/ MergeInner
    \/ MergeAppend \/ MergePassEnd \/ MergeReturn

SpecMerge == InitMerge /\ [][NextMerge]_vars

InMerge == pc \in {"merge_call", "merge_while", "merge_for_i", "merge_for_j", "merge_done"}

\* The merge test between two boxes.
CloseBoxes(a, b, gap) == CloseTo(a[1], a[2], a[3], a[4], gap, b)

\* C3: the list merge_close_regions returns is a fixpoint: no two distinct
\* regions of it pass the merge test, and merge_close_regions called on it
\* with the same gap returns the identical list.
C3_MergeFixpoint ==
    pc = "merge_done" =>
      /\ \A k, l \in 1..Len(ms.regions) :
            k # l => ~CloseBoxes(ms.regions[k], ms.regions[l], ms.gap)
      /\ merge_close_regions(ms.regions, ms.gap) = ms.regions

\* A call that returned two regions or more, fewer than it was given.
C3_Witness ==
    /\ pc = "merge_done"
    /\ Len(ms.regions) >= 2
    /\ Len(ms.regions) < Len(ms.input)

\* The positions of the input list linked to position a by a chain in which
\* each consecutive pair of input boxes passes the merge test.
RECURSIVE ChainFrom(_, _, _)
ChainFrom(S, input, gap) ==
    LET T == S \cup {b \in 1..Len(input) :
                       \E a \in S : CloseBoxes(input[a], input[b], gap)}
    IN  IF T = S THEN S ELSE ChainFrom(T, input, gap)

Linked(a, b) == b \in ChainFrom({a}, ms.input, ms.gap)

SameOutput(a, b) ==
    \E k \in 1..Len(ms.src) : a \in ms.src[k] /\ b \in ms.src[k]

\* The bounding box of the input boxes at the positions S.
BoxUnion(S, input) ==
    <<CHOOSE v \in {input[m][1] : m \in S} : \A m \in S : v <= input[m][1],
      CHOOSE v \in {input[m][2] : m \in S} : \A m \in S : v <= input[m][2],
      CHOOSE v \in {input[m][3] : m \in S} : \A m \in S : v >= input[m][3],
      CHOOSE v \in {input[m][4] : m \in S} : \A m \in S : v >= input[m][4]>>

\* Every input is absorbed into exactly one returned region, and each
\* returned box is the bounding box of the inputs absorbed into it.
OutputsAreUnions ==
    /\ Len(ms.src) = Len(ms.regions)
    /\ \A m \in 1..Len(ms.input) :
          Cardinality({k \in 1..Len(ms.src) : m \in ms.src[k]}) = 1
    /\ \A k \in 1..Len(ms.regions) :
          /\ ms.src[k] # {}
          /\ ms.src[k] \subseteq 1..Len(ms.input)
          /\ SubSeq(ms.regions[k], 1, 4) = BoxUnion(ms.src[k], ms.input)

\* C4 as claimed: two inputs end up in the same returned region if and only
\* if a chain of input boxes, each passing the merge test with the next,
\* links them, and each returned box is the bounding box of its inputs.
C4_ClassesAreChainClasses ==
    pc = "merge_done" =>
      /\ OutputsAreUnions
      /\ \A a, b \in 1..Len(ms.input) : SameOutput(a, b) <=> Linked(a, b)

\* C4 as the code has it: two inputs linked by such a chain end up in the
\* same returned region (a returned region may hold more: a box grown by a
\* merge can absorb a region that none of its input boxes passes the test
\* with), every input ends up in exactly one returned region, and each
\* returned box is the bounding box of the inputs absorbed into it.
C4_ChainsMergeAndBoxesAreUnions ==
    pc = "merge_done" =>
      /\ OutputsAreUnions
      /\ \A a, b \in 1..Len(ms.input) : Linked(a, b) => SameOutput(a, b)

\* A call that returned, after two passes that merged, a region holding two
\* inputs that pass the test with a third but not with each other.
C4_Witness ==
    /\ pc = "merge_done"
    /\ ms.passes >= 3
    /\ \E a, b, c \in 1..Len(ms.input) :
          /\ SameOutput(a, c)
          /\ CloseBoxes(ms.input[a], ms.input[b], ms.gap)
          /\ CloseBoxes(ms.input[b], ms.input[c], ms.gap)
          /\ ~CloseBoxes(ms.input[a], ms.input[c], ms.gap)

RECURSIVE SumCounts(_, _)
SumCounts(S, input) ==
    IF S = {} THEN 0
    ELSE LET m == CHOOSE m \in S : TRUE
         IN  input[m][5] + SumCounts(S \ {m}, input)

RECURSIVE SumList(_)
SumList(l) == IF l = <<>> THEN 0 ELSE Head(l)[5] + SumList(Tail(l))

\* C5: after every pass of merge_close_regions and at its return, each
\* region's pixel_count is the sum of the pixel_counts of the inputs
\* absorbed into it, every input is absorbed into exactly one region, and
\* the counts of the list add up to the counts of the input.
C5_PixelCountAdditive ==
    pc \in {"merge_while", "merge_done"} =>
      /\ Len(ms.src) = Len(ms.regions)
      /\ \A m \in 1..Len(ms.input) :
            Cardinality({k \in 1..Len(ms.src) : m \in ms.src[k]}) = 1
      /\ \A k \in 1..Len(ms.regions) :
            ms.regions[k][5] = SumCounts(ms.src[k], ms.input)
      /\ SumList(ms.regions) = SumList(ms.input)

\* A call that returned a region that absorbed two inputs or more, whose
\* box is larger than the count it carries, beside another region.
C5_Witness ==
    /\ pc = "merge_done"
    /\ Len(ms.regions) >= 2
    /\ \E k \in 1..Len(ms.regions) :
          /\ Cardinality(ms.src[k]) >= 2
          /\ (ms.regions[k][3] - ms.regions[k][1])
               * (ms.regions[k][4] - ms.regions[k][2]) # ms.regions[k][5]

(***************************************************************************)
(* slice_spritesheet, steps 3 and 4 on the list of regions: the merge with *)
(* gap 3, the filter on the pixel count, the sort, and the padded and      *)
(* clamped crop box of each region with the index its file is saved under. *)
(***************************************************************************)
MinSize == 30
SliceGap == 3
MinPixelCount == 500
RowBucket == 50
Pad == 2

\* Line 195 with >= in place of >.
RECURSIVE FilterArtifactsInclusive(_)
FilterArtifactsInclusive(l) ==
    IF l = <<>> THEN <<>>
    ELSE IF Head(l)[5] >= MinPixelCount
         THEN <<Head(l)>> \o FilterArtifactsInclusive(Tail(l))
         ELSE FilterArtifactsInclusive(Tail(l))

\* Line 195.
RECURSIVE FilterArtifacts(_)
FilterArtifacts(l) ==
    IF l = <<>> THEN <<>>
    ELSE IF Head(l)[5] > MinPixelCount
         THEN <<Head(l)>> \o FilterArtifacts(Tail(l))
         ELSE FilterArtifacts(Tail(l))

\* Line 198: the key (r[1] // 50, r[0]) and the order of Python's tuples.
SortKey(r) == <<r[2] \div RowBucket, r[1]>>

KeyLess(a, b) == a[1] < b[1] \/ (a[1] = b[1] /\ a[2] < b[2])

\* list.sort is stable: r goes behind every element whose key is not
\* greater than its own.
RECURSIVE InsertStable(_, _)
InsertStable(l, r) ==
    IF l = <<>> THEN <<r>>
    ELSE IF KeyLess(SortKey(r), SortKey(Head(l))) THEN <<r>> \o l
    ELSE <<Head(l)>> \o InsertStable(Tail(l), r)

RECURSIVE SortRegions(_)
SortRegions(l) ==
    IF l = <<>> THEN <<>>
    ELSE InsertStable(SortRegions(SubSeq(l, 1, Len(l) - 1)), l[Len(l)])

\* Lines 206-210 without the clamp of x2 and y2.
PadClampNoUpper(w, h, r) ==
    <<Max2(0, r[1] - Pad), Max2(0, r[2] - Pad), r[3] + Pad, r[4] + Pad>>

\* Lines 206-210: the box padded and clamped to the sheet.
PadClamp(w, h, r) ==
    <<Max2(0, r[1] - Pad), Max2(0, r[2] - Pad),
      Min2(w, r[3] + Pad), Min2(h, r[4] + Pad)>>

(***************************************************************************)
(* SpecSlice: slice_spritesheet from the list find_sprite_regions returns. *)
(* The sheet is 64 x 80.  A region of the list has a box inside the sheet  *)
(* with sides of MinSize or more and a pixel count its box can hold; the   *)
(* list is in the order of discovery (min_y never decreases) and no two    *)
(* of its boxes are the same.                                              *)
(***************************************************************************)
MaxSprites == 3

SheetSize == <<64, 80>>

\* The extents of the boxes on each axis.  On x: at the left edge, 3 in
\* from it, and at the right edge, 4 from the first and 1 from the second.
\* On y: at the top, and two in touching buckets of rows that reach the
\* bottom edge or stop short of it.
XExtents == {<<0, 30>>, <<3, 33>>, <<34, 64>>}
YExtents == {<<0, 30>>, <<49, 79>>, <<50, 80>>}
Counts == {250, 500, 501}

FoundRegions ==
    {r \in {<<x[1], y[1], x[2], y[2], c>> :
               x \in XExtents, y \in YExtents, c \in Counts} :
        /\ 0 <= r[1] /\ r[1] + MinSize <= r[3] /\ r[3] <= SheetSize[1]
        /\ 0 <= r[2] /\ r[2] + MinSize <= r[4] /\ r[4] <= SheetSize[2]
        /\ (r[3] - r[1]) + (r[4] - r[2]) - 1 <= r[5]
        /\ r[5] <= (r[3] - r[1]) * (r[4] - r[2])}

FoundLists(n) ==
    {l \in [1..n -> FoundRegions] :
        \A k, m \in 1..n :
           k < m => /\ l[k][2] <= l[m][2]
                    /\ SubSeq(l[k], 1, 4) # SubSeq(l[m], 1, 4)}

InitSlice ==
    /\ pc = "slice_merge"
    /\ \E n \in 0..MaxSprites :
          \E l \in FoundLists(n) :
             cut = [w |-> SheetSize[1], h |-> SheetSize[2], regions |-> l,
                    found |-> l, merged |-> <<>>, i |-> 0]
    /\ out = <<>>
    /\ queue = <<>>
    /\ img = None /\ visited = None /\ rs = None /\ ms = None

\* Line 192.
SliceMerge ==
    /\ pc = "slice_merge"
    /\ LET m == merge_close_regions(cut.regions, SliceGap)
       IN  cut' = [cut EXCEPT !.regions = m, !.merged = m]
    /\ pc' = "slice_filter"
    /\ UNCHANGED <<img, visited, queue, rs, ms, out>>

\* Line 195.
SliceFilter ==
    /\ pc = "slice_filter"
    /\ cut' = [cut EXCEPT !.regions = FilterArtifacts(cut.regions)]
    /\ pc' = "slice_sort"
    /\ UNCHANGED <<img, visited, queue, rs, ms, out>>

\* Line 198.
SliceSort ==
    /\ pc = "slice_sort"
    /\ cut' = [cut EXCEPT !.regions = SortRegions(cut.regions), !.i = 0]
    /\ pc' = "slice_loop"
    /\ UNCHANGED <<img, visited, queue, rs, ms, out>>

\* Lines 204-218: one region is cut and saved under the index i + 1.
SliceSave ==
    /\ pc = "slice_loop"
    /\ cut.i < Len(cut.regions)
    /\ LET r == cut.regions[cut.i + 1]
           box == PadClamp(cut.w, cut.h, r)
       IN  out' = Append(out, [index |-> cut.i + 1, box |-> box,
                               size |-> <<box[3] - box[1], box[4] - box[2]>>,
                               region |-> r])
    /\ cut' = [cut EXCEPT !.i = cut.i + 1]
    /\ UNCHANGED <<pc, img, visited, queue, rs, ms>>

\* Line 220.
SliceReturn ==
    /\ pc = "slice_loop"
    /\ cut.i >= Len(cut.regions)
    /\ pc' = "slice_done"
    /\ UNCHANGED <<img, visited, queue, rs, ms, cut, out>>

NextSlice == SliceMerge \/ SliceFilter \/ SliceSort \/ SliceSave \/ SliceReturn

SpecSlice == InitSlice /\ [][NextSlice]_vars

\* C7: every crop box slice_spritesheet cuts and saves lies inside the
\* sheet and has a positive width and height:
\* 0 <= x1 < x2 <= w and 0 <= y1 < y2 <= h.
C7_CropBoxInsideSheet ==
    pc \in {"slice_loop", "slice_done"} =>
      \A k \in 1..Len(out) :
         LET b == out[k].box
         IN  /\ 0 <= b[1] /\ b[1] < b[3] /\ b[3] <= cut.w
             /\ 0 <= b[2] /\ b[2] < b[4] /\ b[4] <= cut.h
             /\ out[k].size = <<b[3] - b[1], b[4] - b[2]>>

\* A sheet with a saved box clamped at 0 on x and at h on y, and one
\* clamped at w.
C7_Witness ==
    /\ pc = "slice_done"
    /\ \E k, l \in 1..Len(out) :
          /\ out[k].region[1] - Pad < 0 /\ out[k].box[1] = 0
          /\ out[k].region[4] + Pad > cut.h /\ out[k].box[4] = cut.h
          /\ out[l].region[3] + Pad > cut.w /\ out[l].box[3] = cut.w

\* How often r occurs in l.
Occurrences(l, r) == Cardinality({k \in 1..Len(l) : l[k] = r})

TransIterNoLeft(st) ==
    LET x == Head(st.queue)[1]
        y == Head(st.queue)[2]
        rest == Tail(st.queue)
        idx == y * st.sprite.w + x
        p == GetPixel(st.sprite, x, y)
    IN  IF ~InBounds(st.sprite.w, st.sprite.h, x, y) THEN [st EXCEPT !.queue = rest]
        ELSE IF st.visited[idx + 1] THEN [st EXCEPT !.queue = rest]
        ELSE IF ~is_background_pixel(p[1], p[2], p[3]) THEN [st EXCEPT !.queue = rest]
        ELSE [st EXCEPT !.queue = rest \o << <<x + 1, y>>, <<x, y + 1>>, <<x, y - 1>> >>,
                        !.visited[idx + 1] = TRUE,
                        !.sprite.px[idx + 1] = <<p[1], p[2], p[3], 0>>]

\* The iteration with a transparent black written for the pixel.
TransIterBlack(st) ==
    LET x == Head(st.queue)[1]
        y == Head(st.queue)[2]
        rest == Tail(st.queue)
        idx == y * st.sprite.w + x
        p == GetPixel(st.sprite, x, y)
    IN  IF ~InBounds(st.sprite.w, st.sprite.h, x, y) THEN [st EXCEPT !.queue = rest]
        ELSE IF st.visited[idx + 1] THEN [st EXCEPT !.queue = rest]
        ELSE IF ~is_background_pixel(p[1], p[2], p[3]) THEN [st EXCEPT !.queue = rest]
        ELSE [st EXCEPT !.queue = rest \o Neighbours(x, y),
                        !.visited[idx + 1] = TRUE,
                        !.sprite.px[idx + 1] = <<0, 0, 0, 0>>]

\* Lines 152-170.
TransIter(st) ==
    LET x == Head(st.queue)[1]
        y == Head(st.queue)[2]
        rest == Tail(st.queue)
        idx == y * st.sprite.w + x
        p == GetPixel(st.sprite, x, y)
    IN  IF ~InBounds(st.sprite.w, st.sprite.h, x, y) THEN [st EXCEPT !.queue = rest]
        ELSE IF st.visited[idx + 1] THEN [st EXCEPT !.queue = rest]
        ELSE IF ~is_background_pixel(p[1], p[2], p[3]) THEN [st EXCEPT !.queue = rest]
        ELSE [st EXCEPT !.queue = rest \o Neighbours(x, y),
                        !.visited[idx + 1] = TRUE,
                        !.sprite.px[idx + 1] = <<p[1], p[2], p[3], 0>>]

\* img.crop((x1, y1, x2, y2)).copy(): a new image of the pixels of the box.
Crop(im, box) ==
    LET cw == box[3] - box[1]
        ch == box[4] - box[2]
    IN  [w |-> cw, h |-> ch,
         px |-> [k \in 1..(cw * ch) |->
                   GetPixel(im, box[1] + ((k - 1) % cw), box[2] + ((k - 1) \div cw))]]

(***************************************************************************)
(* SpecCut: slice_spritesheet on the pixels of a sheet: the sheet-level    *)
(* fill (the steps of SpecFill), then for each region the padded crop and  *)
(* make_background_transparent on it, an iteration of its loop a step.     *)
(* The sheets are too small for a region to pass the size test of step 2,  *)
(* so the loop of step 4 is run on every box that lies in the sheet, for   *)
(* up to MaxCuts regions a sheet: more boxes than the code can cut, the    *)
(* ones it cuts among them at their own scale.  The list of saved files    *)
(* is that of SpecSlice and is left out here; cut.i counts them.           *)
(***************************************************************************)
MaxCuts == 2

\* The sheets: those of 3 x 3, which every padded crop covers, and those of
\* 4 x 3, the smallest in which a padded crop is a proper part of the sheet
\* and has a pixel on its border that is not on the sheet's.  Their colours
\* are the two of lowest alpha, neither 0 nor 255.
CutDims == {<<3, 3>>, <<4, 3>>}
CutPalettes == {{Grey, Cream}}

\* The boxes <<min_x, min_y, max_x + 1, max_y + 1>> inside a w x h sheet.
BoxesIn(w, h) ==
    {<<x1, y1, x2, y2>> : x1 \in 0..(w - 1), y1 \in 0..(h - 1),
                          x2 \in 1..w, y2 \in 1..h}

\* The crop boxes of the regions a w x h sheet can hold.
CropBoxes(w, h) ==
    {PadClamp(w, h, r) : r \in {b \in BoxesIn(w, h) : b[1] < b[3] /\ b[2] < b[4]}}

\* Lines 179-185, up to the call of flood_fill_background.
InitCut ==
    /\ pc = "fill_call"
    /\ img \in Images(CutDims, CutPalettes)
    /\ visited = AllFalse(img.w * img.h)
    /\ cut = [i |-> 0, sheet |-> img]
    /\ queue = <<>>
    /\ rs = None /\ ms = None /\ out = None

\* Lines 204-212: the next region's box is padded, clamped and cropped.
CutCrop ==
    /\ pc = "slice_loop"
    /\ cut.i < MaxCuts
    /\ \E box \in CropBoxes(img.w, img.h) :
          cut' = [i |-> cut.i, sheet |-> cut.sheet, box |-> box,
                  sprite |-> Crop(img, box)]
    /\ pc' = "cut_call"
    /\ UNCHANGED <<img, visited, queue, rs, ms, out>>

\* Lines 138-150.
CutCall ==
    /\ pc = "cut_call"
    /\ cut' = [i |-> cut.i, sheet |-> cut.sheet, box |-> cut.box,
               sprite |-> cut.sprite,
               visited |-> AllFalse(cut.sprite.w * cut.sprite.h)]
    /\ queue' = EdgeSeeds(cut.sprite.w, cut.sprite.h)
    /\ pc' = "cut_loop"
    /\ UNCHANGED <<img, visited, rs, ms, out>>

\* Lines 152-170: one iteration.
CutPop ==
    /\ pc = "cut_loop"
    /\ queue # <<>>
    /\ LET st == TransIter([queue |-> queue, visited |-> cut.visited,
                            sprite |-> cut.sprite])
       IN  /\ queue' = st.queue
           /\ cut' = [cut EXCEPT !.visited = st.visited, !.sprite = st.sprite]
    /\ UNCHANGED <<pc, img, visited, rs, ms, out>>

\* Lines 172 and 213-218: the sprite is returned and saved.
CutSave ==
    /\ pc = "cut_loop"
    /\ queue = <<>>
    /\ cut' = [cut EXCEPT !.i = cut.i + 1]
    /\ pc' = "slice_loop"
    /\ UNCHANGED <<img, visited, queue, rs, ms, out>>

\* Line 220, after any number of regions.
CutReturn ==
    /\ pc = "slice_loop"
    /\ pc' = "slice_done"
    /\ UNCHANGED <<img, visited, queue, rs, ms, cut, out>>

NextCut ==
    \/ FillCall \/ FillPop \/ FillReturn
    \/ CutCrop \/ CutCall \/ CutPop \/ CutSave \/ CutReturn

SpecCut == InitCut /\ [][NextCut]_vars

\* A sprite has been cut and make_background_transparent has returned it.
SpriteCut == pc \in {"slice_loop", "slice_done"} /\ cut.i > 0

\* C6: while make_background_transparent runs and when it has returned,
\* every pixel of the crop its fill has marked has alpha 0 and the R, G, B
\* of the sheet, and every other pixel is the sheet's in all four channels;
\* at its return the marked pixels are those of the border-seeded fill of
\* the crop; and the sheet is the one loaded, whatever was cut before.
C6_TransparencyFrame ==
    (pc = "cut_loop" \/ SpriteCut) =>
      LET orig == Crop(cut.sheet, cut.box)
      IN  /\ img = cut.sheet
          /\ cut.sprite.w = orig.w /\ cut.sprite.h = orig.h
          /\ \A k \in 1..(orig.w * orig.h) :
                IF cut.visited[k]
                THEN cut.sprite.px[k] =
                        <<orig.px[k][1], orig.px[k][2], orig.px[k][3], 0>>
                ELSE cut.sprite.px[k] = orig.px[k]
          /\ SpriteCut =>
                Marked(orig.w, orig.h, cut.visited) = BorderConnected(orig)

\* The second sprite cut from a sheet, with a pixel made transparent whose
\* alpha was not 0, a background-like pixel left as it was, and a
\* foreground pixel.
C6_Witness ==
    /\ SpriteCut
    /\ cut.i = 2
    /\ \E k \in 1..Len(cut.visited) :
          cut.visited[k] /\ Crop(cut.sheet, cut.box).px[k][4] # 0
    /\ \E k \in 1..Len(cut.visited) :
          LET p == cut.sprite.px[k]
          IN  ~cut.visited[k] /\ is_background_pixel(p[1], p[2], p[3]) /\ p[4] # 0
    /\ \E k \in 1..Len(cut.visited) :
          LET p == cut.sprite.px[k]
          IN  ~is_background_pixel(p[1], p[2], p[3])

\* The pixels of the crop box that the sheet-level mask holds, and those
\* the local fill marked, both in the sheet's coordinates.
SheetMaskInBox ==
    {p \in Marked(img.w, img.h, visited) :
        /\ cut.box[1] <= p[1] /\ p[1] < cut.box[3]
        /\ cut.box[2] <= p[2] /\ p[2] < cut.box[4]}

LocalMaskInSheet ==
    {<<p[1] + cut.box[1], p[2] + cut.box[2]>> :
        p \in Marked(cut.sprite.w, cut.sprite.h, cut.visited)}

\* C10: when a sprite has been cut, every pixel of its crop box that the
\* sheet-level mask holds was marked by the local fill of
\* make_background_transparent and has alpha 0 in the sprite.
C10_LocalMaskCoversSheetMask ==
    SpriteCut =>
      /\ SheetMaskInBox \subseteq LocalMaskInSheet
      /\ \A p \in SheetMaskInBox :
            GetPixel(cut.sprite, p[1] - cut.box[1], p[2] - cut.box[2])[4] = 0

\* A sprite whose local fill marked pixels of the sheet-level mask and a
\* pixel the sheet-level mask does not hold.
C10_Witness ==
    /\ SpriteCut
    /\ SheetMaskInBox # {}
    /\ LocalMaskInSheet \ SheetMaskInBox # {}

(***************************************************************************)
(* LiveSpec: one call of each function, run as the interpreter runs it: a  *)
(* single thread that takes its next step whenever it has one.  The calls  *)
(* are flood_fill_background and find_sprite_regions on the images and     *)
(* masks of at most MaxPixels pixels, merge_close_regions on the lists of  *)
(* SpecMerge, and the cuts of SpecCut on the 3 x 3 sheets.                 *)
(***************************************************************************)
LivePalettes == {{White, Blue}}

InitLive ==
    \/ /\ InitFill
       /\ img \in Images(Dims, LivePalettes)
    \/ /\ InitRegions
       /\ rs.min_size = 2
    \/ InitMerge
    \/ /\ InitCut
       /\ img.w = 3

NextLive ==
    \/ FillCall \/ FillPop \/ FillReturn
    \/ RegCall \/ RegScan \/ RegPop \/ RegEnd \/ RegReturn
    \/ MergeCall \/ MergePass \/ MergeOuter \/ MergeInner
    \/ MergeAppend \/ MergePassEnd \/ MergeReturn
    \/ CutCrop \/ CutCall \/ CutPop \/ CutSave \/ CutReturn

LiveSpec == InitLive /\ [][NextLive]_vars /\ WF_vars(NextLive)

Returned == pc \in {"fill_done", "reg_done", "merge_done", "slice_done"}

CountTrue(mask) == Cardinality({k \in 1..Len(mask) : mask[k]})

\* A step of a fill loop that appends to its work list marks a pixel that
\* was not marked.
ExpandsOnFirstVisit ==
    /\ (pc = "fill_loop" /\ Len(queue') > Len(queue)) =>
          CountTrue(visited') = CountTrue(visited) + 1
    /\ (pc = "reg_bfs" /\ Len(queue') > Len(queue)) =>
          CountTrue(rs'.region_visited) = CountTrue(rs.region_visited) + 1
    /\ (pc = "cut_loop" /\ Len(queue') > Len(queue)) =>
          CountTrue(cut'.visited) = CountTrue(cut.visited) + 1

\* A pass of the merge loop that merged ends with fewer regions than it
\* began with.
MergingPassShrinks ==
    (pc = "merge_for_i" /\ pc' = "merge_while" /\ ms.merged) =>
       Len(ms'.regions) < Len(ms.regions)

\* C9: every call returns: each fill loop's work list runs empty, a step
\* that appends to it marking a pixel not marked before; the merge loop
\* comes to a pass without a merge, every pass that merges leaving fewer
\* regions, after at most n passes for n input regions.
C9_EveryCallReturns ==
    /\ <>Returned
    /\ [][ExpandsOnFirstVisit]_vars
    /\ [][MergingPassShrinks]_vars
    /\ [](InMerge => ms.passes <= Len(ms.input))

\* A merge of n regions, n > 1, that returned after n passes, the most
\* the claim allows.
C9_Witness ==
    /\ pc = "merge_done"
    /\ Len(ms.input) >= 2
    /\ ms.passes = Len(ms.input)

====
